---- MODULE Spec2Model ----
(***************************************************************************)
(* TinyTask: one cooperative task object driven by the wrapping tick       *)
(* counters millis() / micros() and polled through loop().                 *)
(*                                                                         *)
(* `unsigned long' is modelled as a W-bit unsigned integer and `long' as   *)
(* a W-bit two's complement integer, so the arithmetic wraps exactly as    *)
(* on the target (where W is 32).                                          *)
(***************************************************************************)
EXTENDS Integers, FiniteSets, Sequences, TLC

\* ---------------------------------------------------------------- bounds
W == 3            \* bits of `unsigned long' / `long' in the model
UsPerMs == 3      \* micros() ticks per millis() tick in the model
MaxDelay == 2     \* largest magnitude of a delay / interval argument

Modulus == 2^W                 \* number of values of an unsigned long
Half == 2^(W-1)                \* first unsigned value whose sign bit is set

ULongs == 0..(Modulus - 1)
Longs == (0 - Half)..(Half - 1)
Delays == {d \in Longs : d >= 0 - MaxDelay /\ d <= MaxDelay}
\* offsets from the current tick used for callAt(): the near past and
\* future, and the two ends of the signed range
Offsets == Delays \cup {0 - Half, Half - 1}
Pointers == {"p1", "p2"}

\* ------------------------------------------------------------ arithmetic
\* (long) of an unsigned long: two's complement reinterpretation
ToSigned(u) == IF u >= Half THEN u - Modulus ELSE u

\* (unsigned long) of an integer: reduction modulo 2^W
ToUnsigned(x) == x % Modulus

VARIABLES
  clock,               \* the hardware timer, counted in millis() ticks
  microseconds,        \* TinyTask::microseconds
  periodic,            \* TinyTask::periodic
  active,              \* TinyTask::active
  pointerParam,        \* TinyTask::pointerParam
  interval,            \* TinyTask::interval
  timeout,             \* TinyTask::timeout
  taskToCall,          \* TinyTask::taskToCall        (TRUE = non-NULL)
  taskToCallTakesPtr,  \* TinyTask::taskToCallTakesPtr (TRUE = non-NULL)
  pc,                  \* "idle", or "spin" while loop() is in its while loop
  phase,               \* history: "never", "pending", "fired", "cancelled"
  since,               \* history: the latest callIn(d) and the ticks since
  last,                \* history: the most recent call and what it returned
  supplied,            \* history: the pointer of the latest two-argument call
  did                  \* history: what the callback of the latest firing did

fields == <<microseconds, periodic, active, pointerParam, interval, timeout,
            taskToCall, taskToCallTakesPtr>>
vars == <<clock, microseconds, periodic, active, pointerParam, interval,
          timeout, taskToCall, taskToCallTakesPtr, pc, phase, since, last,
          supplied, did>>

\* ------------------------------------------------------------ tick source
\* Both counters are driven by the same timer and wrap at 2^W; micros()
\* runs UsPerMs times as fast as millis().
millis == clock
micros == ToUnsigned(UsPerMs * clock)
now == IF microseconds THEN micros ELSE millis

\* ---------------------------------------------------------- remaining()
\* the sentinel for an inactive task left out
remainingNoSentinel(act, tmo, n) == ToSigned(ToUnsigned(tmo - n))

\* timeLeft is an unsigned long, so the test `timeLeft < 0' is never true
\* and the value returned is timeLeft converted to long.
remainingAt(act, tmo, n) ==
  IF ~act THEN -1
  ELSE LET timeLeft == ToUnsigned(tmo - n)
       IN  IF timeLeft < 0 THEN 0 ELSE ToSigned(timeLeft)

remaining == remainingAt(active, timeout, now)

\* ------------------------------------------------------------ callTask()
\* which callback callTask() invokes
calledBy(plain, takesPtr) ==
  IF plain THEN "plain" ELSE IF takesPtr THEN "ptr" ELSE "none"

callTask == calledBy(taskToCall, taskToCallTakesPtr)

\* the record of a call that invoked no callback
Call(o, a, r) ==
  [op |-> o, arg |-> a, ret |-> r, called |-> "none", passed |-> "none"]

\* the record of a loop() call that went through `rounds' rounds of its
\* while loop and invoked callTask()
Fire(rounds) ==
  [op |-> "loop", arg |-> rounds, ret |-> "void", called |-> callTask,
   passed |-> IF callTask = "ptr" THEN pointerParam ELSE "none"]

\* ------------------------------------------------------------------ Init
\* The constructors set one callback and clear the other; active and
\* microseconds have default member initialisers; periodic, pointerParam,
\* interval and timeout are left uninitialised.
\* the callback entered by a firing of a task that was periodic or not,
\* before it has called anything
Entered(every) == [op |-> "none", arg |-> 0, ret |-> "void", every |-> every]

NoCallIn == [on |-> FALSE, ok |-> FALSE, d |-> 0, e |-> 0, over |-> FALSE]

Init ==
  /\ clock \in ULongs
  /\ microseconds = FALSE
  /\ active = FALSE
  /\ periodic \in BOOLEAN
  /\ pointerParam \in Pointers
  /\ interval \in Delays
  /\ timeout \in ULongs
  /\ \/ taskToCall = TRUE /\ taskToCallTakesPtr = FALSE
     \/ taskToCall = FALSE /\ taskToCallTakesPtr = TRUE
  /\ pc = "idle"
  /\ phase = "never"
  /\ since = NoCallIn
  /\ last = Call("new", 0, "void")
  /\ supplied = "none"
  /\ did = Entered(FALSE)

\* ---------------------------------------------------------------- callIn
\* the guard reads the member TinyTask::interval, not the argument
callInAccepts(d) == ~(interval < 0)

\* callIn() that leaves TinyTask::periodic as it was
callInKeepsMode(d) ==
  IF callInAccepts(d)
  THEN /\ timeout' = ToUnsigned(now + d)
       /\ active' = TRUE
       /\ phase' = "pending"
       /\ UNCHANGED periodic
  ELSE UNCHANGED <<timeout, periodic, active, phase>>

callInBody(d) ==
  IF callInAccepts(d)
  THEN /\ timeout' = ToUnsigned(now + d)
       /\ periodic' = FALSE
       /\ active' = TRUE
       /\ phase' = "pending"
  ELSE UNCHANGED <<timeout, periodic, active, phase>>

CallIn(d) ==
  /\ pc = "idle"
  /\ callInBody(d)
  /\ since' = [on |-> TRUE, ok |-> callInAccepts(d), d |-> d, e |-> 0,
                over |-> active /\ periodic /\ remaining < d]
  /\ last' = Call("callIn", d, callInAccepts(d))
  /\ UNCHANGED <<clock, microseconds, pointerParam, interval, taskToCall,
                 taskToCallTakesPtr, pc>>
  /\ UNCHANGED <<supplied, did>>

\* The two-argument overloads store the pointer, call the one-argument
\* overload as a statement and flow off the end without a return
\* statement: the value r the caller receives is not determined.
CallInPtr(d, p, r) ==
  /\ pc = "idle"
  /\ pointerParam' = p
  /\ callInBody(d)
  /\ since' = NoCallIn
  /\ last' = Call("callInPtr", d, r)
  /\ UNCHANGED <<clock, microseconds, interval, taskToCall,
                 taskToCallTakesPtr, pc>>
  /\ supplied' = p
  /\ UNCHANGED did

\* ---------------------------------------------------------------- callAt
\* futureTime - millis() is an unsigned long, compared with 0
callAtAccepts(futureTime) == ~(ToUnsigned(futureTime - now) < 0)

callAtBody(futureTime) ==
  IF callAtAccepts(futureTime)
  THEN /\ timeout' = futureTime
       /\ periodic' = FALSE
       /\ active' = TRUE
       /\ phase' = "pending"
  ELSE UNCHANGED <<timeout, periodic, active, phase>>

CallAt(futureTime) ==
  /\ pc = "idle"
  /\ callAtBody(futureTime)
  /\ since' = NoCallIn
  /\ last' = Call("callAt", futureTime, callAtAccepts(futureTime))
  /\ UNCHANGED <<clock, microseconds, pointerParam, interval, taskToCall,
                 taskToCallTakesPtr, pc>>
  /\ UNCHANGED <<supplied, did>>

CallAtPtr(futureTime, p, r) ==
  /\ pc = "idle"
  /\ pointerParam' = p
  /\ callAtBody(futureTime)
  /\ since' = NoCallIn
  /\ last' = Call("callAtPtr", futureTime, r)
  /\ UNCHANGED <<clock, microseconds, interval, taskToCall,
                 taskToCallTakesPtr, pc>>
  /\ supplied' = p
  /\ UNCHANGED did

\* ------------------------------------------------------------- callEvery
\* the guard of callIn(), which reads the member
callEveryReadsMember(i) == ~(interval < 0)

callEveryAccepts(i) == ~(i < 0)

callEveryBody(i) ==
  IF callEveryAccepts(i)
  THEN /\ interval' = i
       /\ timeout' = ToUnsigned(now + i)
       /\ periodic' = TRUE
       /\ active' = TRUE
       /\ phase' = "pending"
  ELSE UNCHANGED <<interval, timeout, periodic, active, phase>>

CallEvery(i) ==
  /\ pc = "idle"
  /\ callEveryBody(i)
  /\ since' = NoCallIn
  /\ last' = Call("callEvery", i, callEveryAccepts(i))
  /\ UNCHANGED <<clock, microseconds, pointerParam, taskToCall,
                 taskToCallTakesPtr, pc>>
  /\ UNCHANGED <<supplied, did>>

\* the two-argument callEvery() without the store to pointerParam
CallEveryPtrDropsPointer(i, p, r) ==
  /\ pc = "idle"
  /\ callEveryBody(i)
  /\ since' = NoCallIn
  /\ last' = Call("callEveryPtr", i, r)
  /\ supplied' = p
  /\ UNCHANGED did
  /\ UNCHANGED <<clock, microseconds, pointerParam, taskToCall,
                 taskToCallTakesPtr, pc>>

CallEveryPtr(i, p, r) ==
  /\ pc = "idle"
  /\ pointerParam' = p
  /\ callEveryBody(i)
  /\ since' = NoCallIn
  /\ last' = Call("callEveryPtr", i, r)
  /\ UNCHANGED <<clock, microseconds, taskToCall, taskToCallTakesPtr, pc>>
  /\ supplied' = p
  /\ UNCHANGED did

\* ------------------------------------------------------------------ loop
\* an `if' in place of the `while': the timeout advances by one interval
catchUpOnce(tmo, ivl, n, budget) ==
  [exited |-> TRUE, timeout |-> ToUnsigned(tmo + ivl), rounds |-> 1]

\* while (remaining() <= 0) timeout = timeout + interval;
\* run with the tick counter standing still.  The timeout takes at most
\* Modulus values, so a loop that has not exited after Modulus rounds
\* does not exit before the counter moves.
RECURSIVE catchUpFrom(_, _, _, _, _)
catchUpFrom(tmo, ivl, n, budget, done) ==
  IF remainingAt(TRUE, tmo, n) > 0
  THEN [exited |-> TRUE, timeout |-> tmo, rounds |-> done]
  ELSE IF budget = 0
  THEN [exited |-> FALSE, timeout |-> tmo, rounds |-> done]
  ELSE catchUpFrom(ToUnsigned(tmo + ivl), ivl, n, budget - 1, done + 1)

catchUp(tmo, ivl, n, budget) == catchUpFrom(tmo, ivl, n, budget, 0)

\* the test without `if (active)'
loopDueUnguarded == remaining <= 0

\* the test with `<' in place of `<=': a task exactly at its deadline waits
loopDueStrict == active /\ remaining < 0

\* if (active) { if (remaining() <= 0) { ... callTask(); } }
loopDue == active /\ remaining <= 0

\* a one-shot task left pending when it fires
oneShotStaysActive == active

\* what TinyTask::active holds after a one-shot task fired
oneShotActive == FALSE

Loop ==
  /\ pc = "idle"
  /\ since' = NoCallIn
  /\ IF loopDue
     THEN IF periodic
          THEN LET r == catchUp(timeout, interval, now, Modulus)
               IN  /\ timeout' = r.timeout
                   /\ pc' = IF r.exited THEN "idle" ELSE "spin"
                   /\ last' = IF r.exited THEN Fire(r.rounds)
                              ELSE Call("spin", 0, "void")
                   /\ UNCHANGED <<active, phase>>
          ELSE /\ active' = oneShotActive
               /\ phase' = "fired"
               /\ last' = Fire(0)
               /\ UNCHANGED <<timeout, pc>>
     ELSE /\ last' = Call("loop", 0, "void")
          /\ UNCHANGED <<active, timeout, pc, phase>>
  /\ UNCHANGED <<clock, microseconds, periodic, pointerParam, interval,
                 taskToCall, taskToCallTakesPtr>>
  /\ UNCHANGED <<supplied, did>>

\* loop() still inside its while loop: it goes on once the counter moved
LoopSpin ==
  /\ pc = "spin"
  /\ LET r == catchUp(timeout, interval, now, Modulus)
     IN  /\ r.exited
         /\ timeout' = r.timeout
         /\ last' = Fire(r.rounds)
  /\ pc' = "idle"
  /\ UNCHANGED <<clock, microseconds, periodic, active, pointerParam,
                 interval, taskToCall, taskToCallTakesPtr, phase, since>>
  /\ UNCHANGED <<supplied, did>>

\* ------------------------------------------------- useMillis / useMicros
UseMillis ==
  /\ pc = "idle"
  /\ microseconds' = FALSE
  /\ since' = NoCallIn
  /\ last' = Call("useMillis", 0, "void")
  /\ UNCHANGED <<clock, periodic, active, pointerParam, interval, timeout,
                 taskToCall, taskToCallTakesPtr, pc, phase>>
  /\ UNCHANGED <<supplied, did>>

\* useMicros() that also converts the pending deadline to the new unit
UseMicrosRescales ==
  /\ pc = "idle"
  /\ microseconds' = TRUE
  /\ timeout' = IF microseconds THEN timeout ELSE ToUnsigned(UsPerMs * timeout)
  /\ since' = NoCallIn
  /\ last' = Call("useMicros", 0, "void")
  /\ UNCHANGED <<clock, periodic, active, pointerParam, interval,
                 taskToCall, taskToCallTakesPtr, pc, phase>>
  /\ UNCHANGED <<supplied, did>>

UseMicros ==
  /\ pc = "idle"
  /\ microseconds' = TRUE
  /\ since' = NoCallIn
  /\ last' = Call("useMicros", 0, "void")
  /\ UNCHANGED <<clock, periodic, active, pointerParam, interval, timeout,
                 taskToCall, taskToCallTakesPtr, pc, phase>>
  /\ UNCHANGED <<supplied, did>>

\* ---------------------------------------------------------------- cancel
Cancel ==
  /\ pc = "idle"
  /\ active' = FALSE
  /\ phase' = "cancelled"
  /\ since' = NoCallIn
  /\ last' = Call("cancel", 0, "void")
  /\ UNCHANGED <<clock, microseconds, periodic, pointerParam, interval,
                 timeout, taskToCall, taskToCallTakesPtr, pc>>
  /\ UNCHANGED <<supplied, did>>

\* ------------------------------------------------------------------ tick
\* The timer advances by one millis() tick.  `since.e' counts the ticks of
\* the selected counter that went by since callIn(), as long as that is
\* less than half the counter range; `since.over' tells that the callIn()
\* came upon a pending periodic task due before the new deadline.
ticksPerStep == IF microseconds THEN UsPerMs ELSE 1

Tick ==
  /\ clock' = ToUnsigned(clock + 1)
  /\ since' = IF since.on /\ since.e + ticksPerStep < Half
              THEN [since EXCEPT !.e = @ + ticksPerStep]
              ELSE NoCallIn
  /\ last' = Call("tick", 0, "void")
  /\ UNCHANGED <<fields, pc, phase>>
  /\ UNCHANGED <<supplied, did>>

\* The one-argument interface, the polling loop and the tick source.
Next ==
  \/ \E d \in Delays : CallIn(d)
  \/ \E o \in Offsets : CallAt(ToUnsigned(now + o))
  \/ \E i \in Delays : CallEvery(i)
  \/ Loop
  \/ LoopSpin
  \/ UseMillis
  \/ UseMicros
  \/ Cancel
  \/ Tick

Spec == Init /\ [][Next]_vars

\* The pointer-argument interface, callEvery(long) beside it, the polling
\* loop and the tick source.
NextPtr ==
  \/ \E i \in Delays : CallEvery(i)
  \/ \E d \in Delays, p \in Pointers, r \in BOOLEAN : CallInPtr(d, p, r)
  \/ \E o \in Offsets, p \in Pointers, r \in BOOLEAN :
        CallAtPtr(ToUnsigned(now + o), p, r)
  \/ \E i \in Delays, p \in Pointers, r \in BOOLEAN : CallEveryPtr(i, p, r)
  \/ Loop
  \/ LoopSpin
  \/ Cancel
  \/ Tick

SpecPtr == Init /\ [][NextPtr]_vars

\* ------------------------------------------------- loop() and the callback
\* loop() up to the call of callTask(): the state is updated first, then
\* the callback is entered.
LoopEnter ==
  /\ pc = "idle"
  /\ since' = NoCallIn
  /\ IF loopDue
     THEN IF periodic
          THEN LET r == catchUp(timeout, interval, now, Modulus)
               IN  /\ timeout' = r.timeout
                   /\ pc' = IF r.exited THEN "callback" ELSE "spin"
                   /\ last' = IF r.exited THEN Fire(r.rounds)
                              ELSE Call("spin", 0, "void")
                   /\ did' = IF r.exited THEN Entered(TRUE) ELSE did
                   /\ UNCHANGED <<active, phase>>
          ELSE /\ active' = oneShotActive
               /\ phase' = "fired"
               /\ last' = Fire(0)
               /\ pc' = "callback"
               /\ did' = Entered(FALSE)
               /\ UNCHANGED timeout
     ELSE /\ last' = Call("loop", 0, "void")
          /\ UNCHANGED <<active, timeout, pc, phase, did>>
  /\ UNCHANGED <<clock, microseconds, periodic, pointerParam, interval,
                 taskToCall, taskToCallTakesPtr, supplied>>

\* the callback calls callIn(d) on its own task
CbCallIn(d) ==
  /\ pc = "callback"
  /\ callInBody(d)
  /\ did' = [did EXCEPT !.op = "callIn", !.arg = d, !.ret = callInAccepts(d)]
  /\ pc' = "return"
  /\ UNCHANGED <<clock, microseconds, pointerParam, interval, taskToCall,
                 taskToCallTakesPtr, since, last, supplied>>

\* the callback calls callEvery(i) on its own task
CbCallEvery(i) ==
  /\ pc = "callback"
  /\ callEveryBody(i)
  /\ did' = [did EXCEPT !.op = "callEvery", !.arg = i,
                        !.ret = callEveryAccepts(i)]
  /\ pc' = "return"
  /\ UNCHANGED <<clock, microseconds, pointerParam, taskToCall,
                 taskToCallTakesPtr, since, last, supplied>>

\* the callback calls cancel() on its own task
CbCancel ==
  /\ pc = "callback"
  /\ active' = FALSE
  /\ phase' = "cancelled"
  /\ did' = [did EXCEPT !.op = "cancel"]
  /\ pc' = "return"
  /\ UNCHANGED <<clock, microseconds, periodic, pointerParam, interval,
                 timeout, taskToCall, taskToCallTakesPtr, since, last,
                 supplied>>

\* loop() with `active = false' moved behind callTask()
LoopReturnDisarms ==
  /\ pc \in {"callback", "return"}
  /\ pc' = "idle"
  /\ active' = IF did.every THEN active ELSE FALSE
  /\ last' = Call("return", 0, "void")
  /\ UNCHANGED <<clock, microseconds, periodic, pointerParam, interval,
                 timeout, taskToCall, taskToCallTakesPtr, phase, since,
                 supplied, did>>

\* callTask() returns and loop() returns after it: no statement follows
\* the call
LoopReturn ==
  /\ pc \in {"callback", "return"}
  /\ pc' = "idle"
  /\ last' = Call("return", 0, "void")
  /\ UNCHANGED <<fields, clock, phase, since, supplied, did>>

\* The one-argument scheduling calls from the sketch and from the callback,
\* the polling loop with the callback as a step of its own, and the tick
\* source.
NextCb ==
  \/ \E d \in Delays : CallIn(d)
  \/ \E i \in Delays : CallEvery(i)
  \/ LoopEnter
  \/ LoopSpin
  \/ \E d \in Delays : CbCallIn(d)
  \/ \E i \in Delays : CbCallEvery(i)
  \/ CbCancel
  \/ LoopReturn
  \/ Tick

SpecCb == Init /\ [][NextCb]_vars

\* a tick under a host that lets any time go by between two polls
TickUnpolled == Tick

\* A tick under a host that polls in time: the timer does not advance to
\* where a pending task would be overdue by half the counter range.
TickPolled ==
  /\ (active /\ pc = "idle") => remaining - ticksPerStep > 0 - Half
  /\ Tick

\* A periodic task on a host that keeps polling: callEvery(long), the unit
\* selection, cancel(), the polling loop and the tick source.
NextLive ==
  \/ \E i \in Delays : CallEvery(i)
  \/ Loop
  \/ LoopSpin
  \/ UseMillis
  \/ UseMicros
  \/ Cancel
  \/ TickPolled

\* the timer keeps counting and the sketch keeps calling loop()
SpecLive ==
  /\ Init
  /\ [][NextLive]_vars
  /\ WF_vars(TickPolled)
  /\ WF_vars(Loop)
  /\ WF_vars(LoopSpin)

(***************************************************************************)
(* Claims                                                                  *)
(***************************************************************************)

\* C1: for every negative delay and every reachable task state,
\* callIn(delay) returns false and leaves active and timeout as they were;
\* a negative delay never arms the task.
C1_NegativeDelayRejected ==
  [][(last'.op = "callIn" /\ last'.arg < 0)
       => (last'.ret = FALSE /\ active' = active /\ timeout' = timeout)]_vars

\* C2: callAt(futureTime) returns false and changes no field when
\* futureTime - now, taken as a signed W-bit value, is negative; otherwise
\* it returns true and sets timeout = futureTime, periodic = false and
\* active = true.
C2_CallAtWindow ==
  [][last'.op = "callAt"
       => IF ToSigned(ToUnsigned(last'.arg - now)) < 0
          THEN last'.ret = FALSE /\ UNCHANGED fields
          ELSE /\ last'.ret = TRUE
               /\ timeout' = last'.arg
               /\ periodic' = FALSE
               /\ active' = TRUE]_vars

\* C3: for every negative interval callEvery(interval) returns false and
\* leaves interval, timeout, periodic and active unchanged; for every
\* interval >= 0 it returns true and sets interval, timeout = (now +
\* interval) mod 2^W, periodic = true and active = true.
C3_CallEvery ==
  [][last'.op = "callEvery"
       => IF last'.arg < 0
          THEN /\ last'.ret = FALSE
               /\ UNCHANGED <<interval, timeout, periodic, active>>
          ELSE /\ last'.ret = TRUE
               /\ interval' = last'.arg
               /\ timeout' = (now + last'.arg) % Modulus
               /\ periodic' = TRUE
               /\ active' = TRUE]_vars

\* a pending one-shot task that a callEvery() with a negative interval
\* has just left alone
C3_Witness ==
  /\ last.op = "callEvery"
  /\ last.arg < 0
  /\ last.ret = FALSE
  /\ active
  /\ ~periodic

\* C4: for every delay >= 0 and every reachable task state, a freshly
\* constructed task included, callIn(delay) returns true and sets timeout =
\* (now + delay) mod 2^W, periodic = false and active = true; remaining()
\* called e ticks later (0 <= e <= delay) returns delay - e.
C4_CallInArms ==
  /\ (last.op = "callIn" /\ last.arg >= 0)
       => /\ last.ret = TRUE
          /\ timeout = (now + last.arg) % Modulus
          /\ periodic = FALSE
          /\ active = TRUE
  /\ (since.on /\ since.d >= 0 /\ since.e <= since.d)
       => remaining = since.d - since.e

\* C5: whenever the task is active remaining() returns a value >= 0, so -1
\* is returned only when the task is not scheduled.
C5_RemainingNotNegative ==
  /\ active => remaining >= 0
  /\ remaining = -1 => ~active

\* C6: remaining() returns exactly -1 on a task that was never scheduled
\* and on any task after cancel(), whatever was scheduled before and
\* whatever the tick value is; cancel() is idempotent and changes no field
\* other than active.
C6_CancelSentinel ==
  /\ [](phase \in {"never", "cancelled"} => remaining = -1)
  /\ [][last'.op = "cancel"
          => /\ active' = FALSE
             /\ UNCHANGED <<microseconds, periodic, pointerParam, interval,
                            timeout, taskToCall, taskToCallTakesPtr>>]_vars

\* a one-shot task cancelled while its deadline was still ahead
C6_Witness ==
  /\ last.op = "cancel"
  /\ phase = "cancelled"
  /\ ~periodic
  /\ ToSigned(ToUnsigned(timeout - now)) > 0
  /\ remaining = -1

\* C7: after cancel() no call of loop() invokes the callback, for any
\* number of polls and any elapsed tick time, until a schedule call is
\* accepted; this holds for one-shot and periodic tasks.
C7_CancelledNeverFires ==
  [][(phase = "cancelled" /\ last'.op \in {"loop", "spin"})
       => /\ last'.op = "loop"
          /\ last'.called = "none"
          /\ UNCHANGED fields]_vars

\* a cancelled periodic task polled after its deadline went by
C7_Witness ==
  /\ phase = "cancelled"
  /\ last.op = "loop"
  /\ last.called = "none"
  /\ periodic
  /\ interval >= 1
  /\ ToSigned(ToUnsigned(timeout - now)) < 0

\* C8: for a periodic task with interval I >= 1 whose deadline D was
\* reached or passed by less than half the counter range when loop() is
\* called at tick `now', that call invokes the callback once and leaves
\* timeout = D + k*I (mod 2^W) for the smallest k >= 1 with D + k*I
\* strictly after `now', that is k = (now - D) \div I + 1.
C8_CatchUp ==
  [][(/\ pc = "idle"
      /\ last'.op \in {"loop", "spin"}
      /\ active
      /\ periodic
      /\ interval >= 1
      /\ ToUnsigned(now - timeout) < Half)
       => /\ last'.op = "loop"
          /\ last'.called = callTask
          /\ last'.called # "none"
          /\ timeout' = (timeout
                + ((ToUnsigned(now - timeout) \div interval) + 1) * interval)
                % Modulus
          /\ ToSigned(ToUnsigned(timeout' - now)) \in 1..interval
          /\ active' = TRUE
          /\ periodic' = TRUE
          /\ interval' = interval]_vars

\* a periodic task that fired once after at least one missed period
C8_Witness ==
  /\ last.op = "loop"
  /\ last.called # "none"
  /\ last.arg >= 2
  /\ periodic
  /\ active
  /\ interval >= 1

\* C9: a one-shot task fires at most once per scheduling call: a loop()
\* call made before the deadline invokes nothing and changes nothing, the
\* first loop() call made once the deadline is reached invokes the callback
\* once and clears active, and later loop() calls invoke nothing until a
\* new schedule call; after an accepted callIn(d), d >= 0, the deadline is
\* reached exactly when d ticks have gone by.
C9_OneShot ==
  [][(/\ pc = "idle"
      /\ last'.op \in {"loop", "spin"}
      /\ ~(active /\ periodic))
       => /\ last'.op = "loop"
          /\ IF active /\ ToSigned(ToUnsigned(timeout - now)) <= 0
             THEN /\ last'.called = callTask
                  /\ last'.called # "none"
                  /\ active' = FALSE
                  /\ UNCHANGED <<microseconds, periodic, pointerParam,
                                 interval, timeout, taskToCall,
                                 taskToCallTakesPtr>>
             ELSE /\ last'.called = "none"
                  /\ UNCHANGED fields
          /\ phase = "fired" => last'.called = "none"
          /\ (since.on /\ since.ok /\ since.d >= 0)
               => (last'.called # "none" <=> since.e >= since.d)]_vars

\* a one-shot task that has just fired and is inactive again
C9_Witness ==
  /\ last.op = "loop"
  /\ last.called # "none"
  /\ phase = "fired"
  /\ ~periodic
  /\ ~active

\* C10: for every tick value and every delay d with 0 <= d < 2^(W-1),
\* after callIn(d) a loop() call made e ticks later (0 <= e < 2^(W-1))
\* invokes the callback if and only if e >= d, and remaining() before the
\* deadline returns d - e, also where now + d wraps past zero.
C10_WrapDetection ==
  /\ []((since.on /\ since.d >= 0 /\ since.e < since.d)
          => remaining = since.d - since.e)
  /\ [][(/\ pc = "idle"
         /\ last'.op \in {"loop", "spin"}
         /\ since.on
         /\ since.d >= 0)
          => (last'.called # "none" <=> since.e >= since.d)]_vars

\* C11: a scheduling request made through a pointer-argument overload and
\* rejected mutates no state at all; in particular pointerParam still
\* holds the value of the last accepted call.
C11_RejectedPtrCallFrame ==
  [][(\/ last'.op = "callInPtr" /\ ~callInAccepts(last'.arg)
      \/ last'.op = "callAtPtr" /\ ~callAtAccepts(last'.arg)
      \/ last'.op = "callEveryPtr" /\ ~callEveryAccepts(last'.arg))
       => UNCHANGED fields]_vars

\* C16: the pointer-argument overloads return the boolean the
\* one-argument call returns in the same state.
C16_PtrOverloadReturns ==
  [][/\ last'.op = "callInPtr" => last'.ret = callInAccepts(last'.arg)
     /\ last'.op = "callAtPtr" => last'.ret = callAtAccepts(last'.arg)
     /\ last'.op = "callEveryPtr"
          => last'.ret = callEveryAccepts(last'.arg)]_vars

\* C12: each loop() call invokes the callback at most once: not at all,
\* and with no state change, when the task is inactive or remaining() > 0,
\* and exactly once, when it returns, if the task is active and due,
\* however many periods were missed.
C12_OneCallbackPerLoop ==
  [][/\ (pc = "idle" /\ last'.op \in {"loop", "spin"})
          => IF active /\ remaining <= 0
             THEN last'.op = "loop"
                    => (last'.called = callTask /\ last'.called # "none")
             ELSE /\ last'.op = "loop"
                  /\ last'.called = "none"
                  /\ UNCHANGED fields
     /\ (pc = "spin" /\ last'.op = "loop")
          => (last'.called = callTask /\ last'.called # "none")]_vars

\* a periodic task that fired once with two periods missed
C12_Witness ==
  /\ last.op = "loop"
  /\ last.called # "none"
  /\ last.arg >= 3
  /\ periodic
  /\ active

\* C17: loop() always terminates: for every interval callEvery accepts,
\* 0 included, the while loop of loop() exits after finitely many rounds
\* even if the tick counter does not advance meanwhile.
C17_LoopTerminates == pc # "spin"

\* C14: useMicros() and useMillis() change only the time unit selection:
\* timeout, interval, active, periodic and pointerParam are unchanged, so
\* a deadline computed under one unit is afterwards compared, unrescaled,
\* with the other tick source.
C14_UnitSwitchFrame ==
  [][last'.op \in {"useMillis", "useMicros"}
       => /\ microseconds' = (last'.op = "useMicros")
          /\ UNCHANGED <<periodic, active, pointerParam, interval, timeout,
                         taskToCall, taskToCallTakesPtr>>
          /\ remaining' =
               IF ~active THEN -1
               ELSE ToSigned(ToUnsigned(timeout -
                      (IF last'.op = "useMicros" THEN micros ELSE millis)))
     ]_vars

\* a pending task whose remaining time reads differently after useMicros()
C14_Witness ==
  /\ last.op = "useMicros"
  /\ active
  /\ micros # millis
  /\ remaining = ToSigned(ToUnsigned(timeout - micros))
  /\ remaining # ToSigned(ToUnsigned(timeout - millis))

\* C19: a task holds one pending firing.  A schedule call that returns true
\* leaves the task active with the deadline and the mode of that call,
\* whatever was pending before; afterwards loop() fires by the new deadline
\* alone: after an accepted callIn(d), d >= 0, it fires exactly when d
\* ticks have gone by, after callAt(t) exactly when t is reached, and the
\* firing leaves the task inactive and not periodic.
C19_ReplacesPending ==
  /\ [][(last'.op \in {"callIn", "callAt", "callEvery"} /\ last'.ret = TRUE)
          => /\ active'
             /\ periodic' = (last'.op = "callEvery")
             /\ timeout' = IF last'.op = "callAt" THEN last'.arg
                           ELSE (now + last'.arg) % Modulus
             /\ last'.op = "callEvery" => interval' = last'.arg]_vars
  /\ [][(pc = "idle" /\ last'.op \in {"loop", "spin"})
          => /\ (since.on /\ since.ok /\ since.d >= 0)
                  => /\ last'.op = "loop"
                     /\ (last'.called # "none") = (since.e >= since.d)
                     /\ last'.called # "none" => (~active' /\ ~periodic')
             /\ (last.op = "callAt" /\ last.ret = TRUE)
                  => /\ last'.op = "loop"
                     /\ (last'.called # "none")
                          = (ToSigned(ToUnsigned(last.arg - now)) <= 0)
                     /\ last'.called # "none" => (~active' /\ ~periodic')
        ]_vars

\* a callIn(2) that replaced a pending periodic task due earlier: one tick
\* later the old deadline has passed and the task is a one-shot with one
\* tick left
C19_Witness ==
  /\ since.on /\ since.ok /\ since.over
  /\ since.d = 2 /\ since.e = 1
  /\ active /\ ~periodic
  /\ remaining = 1

\* C15: one callback variant is bound for the whole lifetime of the task:
\* in every reachable state exactly one of taskToCall / taskToCallTakesPtr
\* is non-null and no step changes either; every firing invokes the bound
\* variant, and the variant that takes a pointer receives the pointer of
\* the most recent two-argument scheduling call.
C15_OneCallbackBound ==
  /\ [](/\ taskToCall # taskToCallTakesPtr
        /\ (last.op = "loop" /\ last.called # "none")
             => /\ (last.called = "plain") = taskToCall
                /\ (last.called = "ptr") = taskToCallTakesPtr
                /\ (last.called = "plain") => last.passed = "none"
                /\ (last.called = "ptr" /\ supplied # "none")
                     => last.passed = supplied)
  /\ [][UNCHANGED <<taskToCall, taskToCallTakesPtr>>]_vars

\* a periodic firing of the pointer variant, repeated after the pointer
\* was supplied with p2
C15_Witness ==
  /\ last.op = "loop"
  /\ last.called = "ptr"
  /\ last.passed = "p2"
  /\ supplied = "p2"
  /\ periodic /\ active
  /\ last.arg >= 2

C18_CallbackReschedules ==
  /\ []((pc = "callback" /\ last.op = "loop")
          => IF did.every THEN active /\ periodic /\ remaining > 0
                          ELSE ~active /\ ~periodic)
  /\ [][pc = "callback"
          => /\ (did'.op = "callIn" /\ did'.ret = TRUE)
                  => /\ active' /\ ~periodic'
                     /\ timeout' = (now + did'.arg) % Modulus
             /\ (did'.op = "callEvery" /\ did'.ret = TRUE)
                  => /\ active' /\ periodic'
                     /\ interval' = did'.arg
                     /\ timeout' = (now + did'.arg) % Modulus
             /\ did'.op = "cancel" => ~active']_vars
  /\ [][last'.op = "return" => UNCHANGED fields]_vars
  /\ [][(pc = "idle" /\ did.op = "cancel" /\ phase = "cancelled"
           /\ last'.op \in {"loop", "spin"})
          => (last'.op = "loop" /\ last'.called = "none")]_vars

\* loop() has returned from the callback of a one-shot firing in which the
\* task re-armed itself with callIn(2)
C18_Witness ==
  /\ pc = "idle"
  /\ last.op = "return"
  /\ ~did.every
  /\ did.op = "callIn" /\ did.ret = TRUE /\ did.arg = 2
  /\ active /\ ~periodic
  /\ remaining = 2
====
